---- MODULE Spec2Model ----
(***************************************************************************)
(* A state-machine model of create_map_poster.py: the disk cache of        *)
(* get_map_data, the poster pipeline of create_poster, the command-line    *)
(* driver, the interactive editor (MapPosterApp) and the road classifier.  *)
(*                                                                         *)
(* Text is modelled as a sequence of one-character strings, so that        *)
(* lower(), replace() and concatenation are computed and not assumed.      *)
(***************************************************************************)
EXTENDS Integers, Sequences, FiniteSets, TLC

VARIABLES
    cache,          \* cache/ directory: path -> content of the file
    fetched_for,    \* history: per cache file, the request whose data it holds
    cacheDirExists, \* whether the cache/ directory exists
    gmd,            \* per task: the activation record of get_map_data
    nCalls,         \* number of get_map_data calls started so far
    themesDir,      \* themes/ directory: theme name -> content of <name>.json
    heap,           \* dict objects: object id -> theme dict
    THEME,          \* the module global THEME: a reference to a dict, or None
    pl,             \* per task: get_coordinates .. create_poster, its position
    posters,        \* per task: the poster file of that run
    postersDirExists,
    argv,           \* the command line
    mainPc,         \* position of the __main__ block
    exitCode,       \* exit status of the process
    printed,        \* what __main__ has printed
    current_theme_data, \* MapPosterApp.current_theme_data: a reference to a dict
    theme_var,      \* MapPosterApp.theme_var
    theme_combo,    \* the values listed by MapPosterApp.theme_combo
    save_call,      \* the last call of MapPosterApp.save_theme: inputs and outcome
    gen_btn,        \* state of the "Generate Poster" button
    status_label,   \* text of the status label
    preview_label,  \* the poster shown in the preview
    dialogs,        \* the message box shown last
    tkQueue,        \* callbacks scheduled with root.after, not yet run
    threads,        \* the run_generation threads that are running
    nEdits,         \* theme edits made by the user so far
    edge,           \* road classifier: the edge data classified
    edge_color,     \* road classifier: result of the color classification
    edge_width,     \* road classifier: result of the width classification
    point,          \* coordinate line: the (lat, lon) formatted
    coords          \* coordinate line: the text drawn on the poster

cacheVars == <<cache, fetched_for, cacheDirExists, gmd, nCalls>>
themeVars == <<themesDir, heap, THEME>>
plVars == <<pl, posters, postersDirExists>>
cliVars == <<argv, mainPc, exitCode, printed>>

guiVars == <<current_theme_data, theme_var, theme_combo, save_call, gen_btn,
             status_label, preview_label, dialogs, tkQueue, threads, nEdits>>
coordVars == <<point, coords>>
classVars == <<edge, edge_color, edge_width, coordVars>>

vars == <<cache, fetched_for, cacheDirExists, gmd, nCalls, themesDir, heap, THEME,
          pl, posters, postersDirExists, argv, mainPc, exitCode, printed,
          current_theme_data, theme_var, theme_combo, save_call, gen_btn,
          status_label, preview_label, dialogs, tkQueue, threads, nEdits,
          edge, edge_color, edge_width, point, coords>>

notCache == <<themeVars, plVars, cliVars, guiVars, classVars>>

-----------------------------------------------------------------------------
(* Bounds *)

MaxCalls == 2       \* get_map_data calls in one behaviour of SpecCache
MaxTasks == 2       \* execution contexts (main thread, worker threads)

Tasks == 1..MaxTasks

-----------------------------------------------------------------------------
(* Text helpers: str.lower, str.replace, str.isalnum, str(int) *)

UpperLetters ==
    <<"A", "B", "C", "D", "E", "F", "G", "H", "I", "J", "K", "L", "M",
      "N", "O", "P", "Q", "R", "S", "T", "U", "V", "W", "X", "Y", "Z">>
LowerLetters ==
    <<"a", "b", "c", "d", "e", "f", "g", "h", "i", "j", "k", "l", "m",
      "n", "o", "p", "q", "r", "s", "t", "u", "v", "w", "x", "y", "z">>
DigitChars == <<"0", "1", "2", "3", "4", "5", "6", "7", "8", "9">>

(* The lowercase letter of every uppercase letter *)
LowerOf ==
    [c \in {UpperLetters[i] : i \in DOMAIN UpperLetters} |->
        LowerLetters[CHOOSE i \in DOMAIN UpperLetters : UpperLetters[i] = c]]

LowerChar(c) == IF c \in DOMAIN LowerOf THEN LowerOf[c] ELSE c

AlnumChars ==
    {UpperLetters[i] : i \in DOMAIN UpperLetters}
        \cup {LowerLetters[i] : i \in DOMAIN LowerLetters}
        \cup {DigitChars[i] : i \in DOMAIN DigitChars}

IsAlnum(c) == c \in AlnumChars

StrLower(s) == [i \in DOMAIN s |-> LowerChar(s[i])]

StrReplace(s, old, new) == [i \in DOMAIN s |-> IF s[i] = old THEN new ELSE s[i]]

Digit(d) == DigitChars[d + 1]

RECURSIVE StrNat(_)
StrNat(n) == IF n < 10 THEN <<Digit(n)>> ELSE StrNat(n \div 10) \o <<Digit(n % 10)>>

StrInt(n) == IF n < 0 THEN <<"-">> \o StrNat(-n) ELSE StrNat(n)

-----------------------------------------------------------------------------
(* Inputs of get_map_data *)

Cities == { <<"A", " ", "b">>, <<"a">> }
Countries == { <<"c">>, <<"b", "_", "c">> }
Dists == { 1, 2 }
DefaultDistance == 29000
AllDists == Dists \cup {DefaultDistance}

(* What the external map service can answer *)
Graphs == { "G1", "G2" }
Features == { "F1" }
None == "None"
Fail == "Fail"

-----------------------------------------------------------------------------
(* Cache paths and contents *)

CACHE_DIR == <<"c", "a", "c", "h", "e">>

city_slug(city) == StrReplace(StrLower(city), " ", "_")

country_slug(country) == StrReplace(StrLower(country), " ", "_")

cache_filename(city, country, dist) ==
    city_slug(city) \o <<"_">> \o country_slug(country) \o <<"_">>
        \o StrInt(dist) \o <<".", "p", "k", "l">>

cache_path(city, country, dist) ==
    CACHE_DIR \o <<"/">> \o cache_filename(city, country, dist)

CachePaths == { cache_path(c, k, d) : c \in Cities, k \in Countries, d \in AllDists }

Absent == [kind |-> "absent", G |-> None, water |-> None, parks |-> None]
Corrupt == [kind |-> "corrupt", G |-> None, water |-> None, parks |-> None]
Pickled(G, water, parks) == [kind |-> "data", G |-> G, water |-> water, parks |-> parks]

Triple(G, water, parks) == <<G, water, parks>>
NoData == Triple(None, None, None)

(* pickle.load of a file's content: the stored triple, or an exception *)
Unpickle(content) ==
    IF content.kind = "data"
    THEN [ok |-> TRUE, data |-> Triple(content.G, content.water, content.parks)]
    ELSE [ok |-> FALSE, data |-> NoData]

-----------------------------------------------------------------------------
(* get_map_data(city, country, point, dist) *)

(* The arguments of a call that decide what is fetched and where it is kept *)
Request(city, country, dist) == [city |-> city, country |-> country, dist |-> dist]
NoRequest == Request(<<>>, <<>>, 0)

GmdIdle ==
    [pc |-> "idle", city |-> <<>>, country |-> <<>>, dist |-> 0,
     found |-> "none", route |-> "none",
     G |-> None, water |-> None, parks |-> None,
     data |-> NoData, exc |-> "none", wrote |-> "none", log |-> <<>>]

GmdStart(city, country, dist) ==
    [GmdIdle EXCEPT !.pc = "check", !.city = city, !.country = country, !.dist = dist]

GmdPath(t) == cache_path(gmd[t].city, gmd[t].country, gmd[t].dist)

GmdDone(t) == gmd[t].pc \in {"returned", "raised"}

(* Lines 239-251: the cache check. A file that exists is unpickled inside  *)
(* try/except Exception: a load that succeeds returns the data at once, a  *)
(* load that fails is printed and falls through to the download.           *)
CheckOutcome_propagates(content) ==
    IF content.kind = "absent"
    THEN [pc |-> "net", route |-> "miss", data |-> NoData, exc |-> "none"]
    ELSE IF Unpickle(content).ok
    THEN [pc |-> "returned", route |-> "hit", data |-> Unpickle(content).data,
          exc |-> "none"]
    ELSE [pc |-> "raised", route |-> "corrupt", data |-> NoData,
          exc |-> "UnpicklingError"]

CheckOutcome_refetches(content) ==
    IF content.kind = "absent"
    THEN [pc |-> "net", route |-> "miss", data |-> NoData, exc |-> "none"]
    ELSE [pc |-> "net", route |-> "corrupt", data |-> NoData, exc |-> "none"]

CheckOutcome(content) ==
    IF content.kind = "absent"
    THEN [pc |-> "net", route |-> "miss", data |-> NoData, exc |-> "none"]
    ELSE IF Unpickle(content).ok
    THEN [pc |-> "returned", route |-> "hit", data |-> Unpickle(content).data,
          exc |-> "none"]
    ELSE [pc |-> "net", route |-> "corrupt", data |-> NoData, exc |-> "none"]

(* Lines 229-251: directory creation, key, cache check *)
get_map_data_check(t) ==
    /\ gmd[t].pc = "check"
    /\ cacheDirExists' = TRUE
    /\ LET content == cache[GmdPath(t)]
           o == CheckOutcome(content)
       IN gmd' = [gmd EXCEPT ![t] =
                    [@ EXCEPT !.pc = o.pc, !.found = content.kind, !.route = o.route,
                              !.data = o.data, !.exc = o.exc]]
    /\ UNCHANGED <<cache, fetched_for, nCalls, notCache>>

(* Line 257: ox.graph_from_point is not inside any try: its exception      *)
(* leaves get_map_data.                                                    *)
NetworkOutcome_guarded(r) ==
    IF r = Fail
    THEN [pc |-> "water", G |-> None, exc |-> "none"]
    ELSE [pc |-> "water", G |-> r, exc |-> "none"]

NetworkOutcome(r) ==
    IF r = Fail
    THEN [pc |-> "raised", G |-> None, exc |-> "FetchError"]
    ELSE [pc |-> "water", G |-> r, exc |-> "none"]

Fetched(op, r) == [op |-> op, r |-> r]

get_map_data_network(t) ==
    /\ gmd[t].pc = "net"
    /\ \E r \in Graphs \cup {Fail} :
         LET o == NetworkOutcome(r)
         IN gmd' = [gmd EXCEPT ![t] =
                      [@ EXCEPT !.pc = o.pc, !.G = o.G, !.exc = o.exc,
                                !.log = Append(@, Fetched("network", r))]]
    /\ UNCHANGED <<cache, fetched_for, cacheDirExists, nCalls, notCache>>

(* Lines 263-266 and 272-275: try: features_from_point except: None *)
GuardedFeatures(r) == IF r = Fail THEN None ELSE r

get_map_data_water(t) ==
    /\ gmd[t].pc = "water"
    /\ \E r \in Features \cup {Fail} :
         gmd' = [gmd EXCEPT ![t] =
                   [@ EXCEPT !.pc = "parks", !.water = GuardedFeatures(r),
                             !.log = Append(@, Fetched("water", r))]]
    /\ UNCHANGED <<cache, fetched_for, cacheDirExists, nCalls, notCache>>

get_map_data_parks(t) ==
    /\ gmd[t].pc = "parks"
    /\ \E r \in Features \cup {Fail} :
         gmd' = [gmd EXCEPT ![t] =
                   [@ EXCEPT !.pc = "save", !.parks = GuardedFeatures(r),
                             !.log = Append(@, Fetched("parks", r))]]
    /\ UNCHANGED <<cache, fetched_for, cacheDirExists, nCalls, notCache>>

(* Lines 279-284: open(cache_path, 'wb') truncates the file, pickle.dump     *)
(* fills it; a failure of open leaves the file as it was, a failure of dump *)
(* leaves a truncated file; either failure is printed and swallowed.        *)
WriteOutcomes == {"ok", "open_failed", "dump_failed"}

CacheAfterWrite_discards(old, w, G, water, parks) == old

CacheAfterWrite_skips_absent_layers(old, w, G, water, parks) ==
    IF water = None \/ parks = None THEN old
    ELSE CASE w = "ok" -> Pickled(G, water, parks)
           [] w = "dump_failed" -> Corrupt
           [] OTHER -> old

CacheAfterWrite(old, w, G, water, parks) ==
    CASE w = "ok" -> Pickled(G, water, parks)
      [] w = "dump_failed" -> Corrupt
      [] OTHER -> old

get_map_data_save(t) ==
    /\ gmd[t].pc = "save"
    /\ \E w \in WriteOutcomes :
         /\ cache' = [cache EXCEPT ![GmdPath(t)] =
                        CacheAfterWrite(@, w, gmd[t].G, gmd[t].water, gmd[t].parks)]
         /\ fetched_for' = [fetched_for EXCEPT ![GmdPath(t)] =
                              CASE w = "ok" -> Request(gmd[t].city, gmd[t].country,
                                                       gmd[t].dist)
                                [] w = "dump_failed" -> NoRequest
                                [] OTHER -> @]
         /\ gmd' = [gmd EXCEPT ![t] =
                      [@ EXCEPT !.pc = "returned", !.wrote = w,
                                !.data = Triple(gmd[t].G, gmd[t].water, gmd[t].parks)]]
    /\ UNCHANGED <<cacheDirExists, nCalls, notCache>>

get_map_data_step(t) ==
    \/ get_map_data_check(t)
    \/ get_map_data_network(t)
    \/ get_map_data_water(t)
    \/ get_map_data_parks(t)
    \/ get_map_data_save(t)

-----------------------------------------------------------------------------
(* Themes: get_available_themes, load_theme, the global THEME *)

Roles == {"bg", "text", "gradient_color", "water", "parks", "road_motorway",
          "road_primary", "road_secondary", "road_tertiary", "road_residential",
          "road_default"}

Colors == {"#A", "#B"}
Missing == "missing"            \* the key is not in the dict
NoName == <<>>                  \* the dict has no 'name'

(* A theme dict: the color of every role, and the 'name' *)
ThemeKeys == Roles \cup {"name"}
ThemeNamed(name, c) == [k \in ThemeKeys |-> IF k = "name" THEN name ELSE c]
ThemeDict(c) == ThemeNamed(NoName, c)

(* Lines 82-95: the dict load_theme returns when the file does not exist *)
EmbeddedDefaultName ==
    <<"F", "e", "a", "t", "u", "r", "e", "-", "B", "a", "s", "e", "d", " ",
      "S", "h", "a", "d", "i", "n", "g">>
EmbeddedDefault == ThemeNamed(EmbeddedDefaultName, "#A")

FEATURE_BASED == <<"f", "e", "a", "t", "u", "r", "e", "_", "b", "a", "s", "e", "d">>
NOIR == <<"n", "o", "i", "r">>
A_B == <<"a", "_", "b">>
ThemeNames == {FEATURE_BASED, NOIR, A_B}

(* A file of themes/: absent, holding the JSON text of a dict, or left     *)
(* truncated by a write that failed                                         *)
NoFile == [exists |-> FALSE, parses |-> FALSE, dict |-> ThemeDict(Missing)]
ThemeFile(d) == [exists |-> TRUE, parses |-> TRUE, dict |-> d]
TruncatedFile == [exists |-> TRUE, parses |-> FALSE, dict |-> ThemeDict(Missing)]

FeatureBasedFile == ThemeFile(ThemeNamed(EmbeddedDefaultName, "#A"))
NoirFile == ThemeFile(ThemeNamed(<<"N", "o", "i", "r">>, "#B"))

(* The themes/ directories a run can start from *)
ThemesDirs ==
    { [n \in ThemeNames |-> IF n = NOIR THEN NoirFile
                            ELSE IF n = FEATURE_BASED /\ hasDefault THEN FeatureBasedFile
                            ELSE NoFile] : hasDefault \in BOOLEAN }

(* A theme file that json.load reads but that lacks some role keys: lines   *)
(* 97-102 return the parsed dict as it is                                   *)
ThemeLacking(d, lacking) == [k \in ThemeKeys |-> IF k \in lacking THEN Missing ELSE d[k]]

LackedRoles == { {"bg"}, {"parks"}, {"road_default"}, {"text"} }

(* The themes/ directories of ThemesDirs, and those in which noir.json      *)
(* lacks a role                                                             *)
ThemesDirsAnyFile ==
    ThemesDirs \cup
    { [n \in ThemeNames |-> IF n = NOIR THEN ThemeFile(ThemeLacking(NoirFile.dict, l))
                            ELSE IF n = FEATURE_BASED THEN FeatureBasedFile
                            ELSE NoFile] : l \in LackedRoles }

get_available_themes == { n \in ThemeNames : themesDir[n].exists }

(* Lines 77-102: the embedded default when the file is absent, else what   *)
(* json.load returns; json.load raises on a file that is not JSON text     *)
load_theme_raises(theme_name) ==
    theme_name \in ThemeNames /\ themesDir[theme_name].exists
        /\ ~themesDir[theme_name].parses

load_theme(theme_name) ==
    IF theme_name \in ThemeNames /\ themesDir[theme_name].exists
    THEN themesDir[theme_name].dict
    ELSE EmbeddedDefault

MaxObjs == 2
ObjIds == 1..MaxObjs
NoRef == 0
FreeDict == ThemeDict(Missing)

(* A new dict object: an id that no reference holds *)
NewObj == CHOOSE o \in ObjIds : o # THEME /\ o # current_theme_data

(* THEME[role]: the global is looked up at every use *)
ThemeGet(role) == IF THEME = NoRef THEN Missing ELSE heap[THEME][role]

-----------------------------------------------------------------------------
(* Road classification: get_edge_colors_by_type, get_edge_widths_by_type *)

(* The 'highway' entry of an edge's data: a string, a list, or no entry *)
TagStr(x) == [kind |-> "str", items |-> <<x>>]
TagList(xs) == [kind |-> "list", items |-> xs]
TagMissing == [kind |-> "missing", items |-> <<>>]

(* Lines 150-154 and 182-185 *)
ColorHighway(data) ==
    IF data.kind = "missing" THEN "unclassified"
    ELSE IF data.kind = "list"
         THEN (IF data.items # <<>> THEN data.items[1] ELSE "unclassified")
         ELSE data.items[1]

WidthHighway(data) ==
    IF data.kind = "missing" THEN "unclassified"
    ELSE IF data.kind = "list"
         THEN (IF data.items # <<>> THEN data.items[1] ELSE "unclassified")
         ELSE data.items[1]

(* Lines 157-168: the theme key of the color *)
ColorRole(highway) ==
    IF highway \in {"motorway", "motorway_link"} THEN "road_motorway"
    ELSE IF highway \in {"trunk", "trunk_link", "primary", "primary_link"}
         THEN "road_primary"
    ELSE IF highway \in {"secondary", "secondary_link"} THEN "road_secondary"
    ELSE IF highway \in {"tertiary", "tertiary_link"} THEN "road_tertiary"
    ELSE IF highway \in {"residential", "living_street", "unclassified"}
         THEN "road_residential"
    ELSE "road_default"

(* Lines 188-197: the line width, in tenths *)
WidthTier_drops_links(highway) ==
    IF highway \in {"motorway"} THEN 12
    ELSE IF highway \in {"trunk", "primary"} THEN 10
    ELSE IF highway \in {"secondary"} THEN 8
    ELSE IF highway \in {"tertiary"} THEN 6
    ELSE 4

WidthTier(highway) ==
    IF highway \in {"motorway", "motorway_link"} THEN 12
    ELSE IF highway \in {"trunk", "trunk_link", "primary", "primary_link"} THEN 10
    ELSE IF highway \in {"secondary", "secondary_link"} THEN 8
    ELSE IF highway \in {"tertiary", "tertiary_link"} THEN 6
    ELSE 4

(* One iteration of each loop: [ok, value]; ok is FALSE when THEME[...]     *)
(* raises KeyError                                                          *)
EdgeColor(data) ==
    LET c == ThemeGet(ColorRole(ColorHighway(data)))
    IN [ok |-> c # Missing, value |-> c]

EdgeWidth(data) == [ok |-> TRUE, value |-> WidthTier(WidthHighway(data))]

(* The edges of the graphs the map service can answer *)
EdgesOf(G) ==
    IF G = "G1"
    THEN <<TagStr("motorway"), TagList(<<"residential", "primary">>), TagMissing>>
    ELSE <<TagStr("footway"), TagList(<<>>), TagStr("tertiary_link")>>

get_edge_colors_by_type(G) == [i \in DOMAIN EdgesOf(G) |-> EdgeColor(EdgesOf(G)[i])]

get_edge_widths_by_type(G) == [i \in DOMAIN EdgesOf(G) |-> EdgeWidth(EdgesOf(G)[i])]

-----------------------------------------------------------------------------
(* The pipeline: get_coordinates, generate_output_filename, create_poster  *)

Points == { "P1" }
RenderOutcomes == { "ok", "error" }

StageOrder == <<"coords", "filename", "acquire", "setup", "base", "roads",
                "gradients", "typography", "export">>

StageIndex(stage) == CHOOSE i \in DOMAIN StageOrder : StageOrder[i] = stage

(* The statement that follows a stage in the source text *)
NextStage(stage) ==
    IF StageIndex(stage) = Len(StageOrder) THEN "done"
    ELSE StageOrder[StageIndex(stage) + 1]

(* No stage is inside a try of its own: an exception leaves the pipeline *)
StageOutcome_continues(stage, ok) == NextStage(stage)

StageOutcome(stage, ok) == IF ok THEN NextStage(stage) ELSE "failed"

PlIdle ==
    [pc |-> "idle", city |-> <<>>, country |-> <<>>, dist |-> 0, theme_name |-> <<>>,
     coords |-> None, data |-> NoData, stages |-> <<>>, reads |-> {},
     started_with |-> FreeDict]

PlStart(city, country, dist, theme_name, dict) ==
    [PlIdle EXCEPT !.pc = "coords", !.city = city, !.country = country, !.dist = dist,
                   !.theme_name = theme_name, !.started_with = dict]

PlEnded(t) == pl[t].pc \in {"done", "failed"}

Stage(stage, ok) == [stage |-> stage, ok |-> ok]

(* Lines 203-221: the geocoder answers a point, answers nothing (ValueError) *)
(* or fails                                                                *)
get_coordinates(t) ==
    /\ pl[t].pc = "coords"
    /\ \E r \in Points \cup {None, Fail} :
         LET ok == r \in Points
         IN pl' = [pl EXCEPT ![t] =
                     [@ EXCEPT !.pc = StageOutcome("coords", ok),
                               !.coords = IF ok THEN r ELSE None,
                               !.stages = Append(@, Stage("coords", ok))]]
    /\ UNCHANGED <<cacheVars, themeVars, posters, postersDirExists, cliVars, guiVars,
                   classVars>>

(* Lines 46-56: creates posters/ when absent, computes the name; no file    *)
generate_output_filename(t) ==
    /\ pl[t].pc = "filename"
    /\ postersDirExists' = TRUE
    /\ pl' = [pl EXCEPT ![t] =
                [@ EXCEPT !.pc = StageOutcome("filename", TRUE),
                          !.stages = Append(@, Stage("filename", TRUE))]]
    /\ UNCHANGED <<cacheVars, themeVars, posters, cliVars, guiVars, classVars>>

(* Line 292: the call of get_map_data and its return or exception *)
create_poster_call_get_map_data(t) ==
    /\ pl[t].pc = "acquire"
    /\ gmd[t].pc \in {"idle", "returned", "raised"}
    /\ gmd' = [gmd EXCEPT ![t] = GmdStart(pl[t].city, pl[t].country, pl[t].dist)]
    /\ pl' = [pl EXCEPT ![t] = [@ EXCEPT !.pc = "acquiring"]]
    /\ UNCHANGED <<cache, fetched_for, cacheDirExists, nCalls, themeVars, posters,
                   postersDirExists,
                   cliVars, guiVars, classVars>>

create_poster_got_map_data(t) ==
    /\ pl[t].pc = "acquiring"
    /\ GmdDone(t)
    /\ LET ok == gmd[t].pc = "returned"
       IN pl' = [pl EXCEPT ![t] =
                   [@ EXCEPT !.pc = StageOutcome("acquire", ok),
                             !.data = gmd[t].data,
                             !.stages = Append(@, Stage("acquire", ok))]]
    /\ UNCHANGED <<cacheVars, themeVars, posters, postersDirExists, cliVars, guiVars,
                   classVars>>

(* A drawing stage: it looks the given roles up in THEME (KeyError when one *)
(* is missing) and calls the renderer, which may raise                      *)
ReadsOf(stage, roles) == { [stage |-> stage, role |-> r, color |-> ThemeGet(r)] : r \in roles }

DrawStage(t, stage, roles) ==
    /\ pl[t].pc = stage
    /\ \E r \in RenderOutcomes :
         LET ok == r = "ok" /\ \A x \in roles : ThemeGet(x) # Missing
         IN pl' = [pl EXCEPT ![t] =
                     [@ EXCEPT !.pc = StageOutcome(stage, ok),
                               !.reads = @ \cup ReadsOf(stage, roles),
                               !.stages = Append(@, Stage(stage, ok))]]
    /\ UNCHANGED <<cacheVars, themeVars, posters, postersDirExists, cliVars, guiVars,
                   classVars>>

(* Lines 296-298 *)
create_poster_setup(t) == DrawStage(t, "setup", {"bg"})

(* Lines 302-305: a layer is drawn only when it is not None *)
create_poster_base(t) ==
    DrawStage(t, "base", (IF pl[t].data[2] # None THEN {"water"} ELSE {})
                             \cup (IF pl[t].data[3] # None THEN {"parks"} ELSE {}))

(* Lines 309-318 *)
RoadRoles(G) == { ColorRole(ColorHighway(EdgesOf(G)[i])) : i \in DOMAIN EdgesOf(G) }

create_poster_roads(t) == DrawStage(t, "roads", RoadRoles(pl[t].data[1]) \cup {"bg"})

(* Lines 321-322 *)
create_poster_gradients(t) == DrawStage(t, "gradients", {"gradient_color"})

(* Lines 325-365 *)
create_poster_typography(t) == DrawStage(t, "typography", {"text"})

(* Lines 368-370: savefig creates the file; when it fails the file may be   *)
(* missing or half written                                                  *)
create_poster_export(t) ==
    /\ pl[t].pc = "export"
    /\ \E r \in RenderOutcomes, left \in {"none", "partial"} :
         LET ok == r = "ok" /\ ThemeGet("bg") # Missing
         IN /\ pl' = [pl EXCEPT ![t] =
                        [@ EXCEPT !.pc = StageOutcome("export", ok),
                                  !.reads = @ \cup ReadsOf("export", {"bg"}),
                                  !.stages = Append(@, Stage("export", ok))]]
            /\ posters' = [posters EXCEPT ![t] =
                             IF ok THEN "complete"
                             ELSE IF ThemeGet("bg") = Missing THEN "none" ELSE left]
    /\ UNCHANGED <<cacheVars, themeVars, postersDirExists, cliVars, guiVars, classVars>>

pipeline_step(t) ==
    \/ get_coordinates(t)
    \/ generate_output_filename(t)
    \/ create_poster_call_get_map_data(t)
    \/ get_map_data_step(t)
    \/ create_poster_got_map_data(t)
    \/ create_poster_setup(t)
    \/ create_poster_base(t)
    \/ create_poster_roads(t)
    \/ create_poster_gradients(t)
    \/ create_poster_typography(t)
    \/ create_poster_export(t)

-----------------------------------------------------------------------------
(* The coordinate line of create_poster (lines 346-349). A coordinate is   *)
(* an integer number of ten-thousandths of a degree, so that the format    *)
(* .4f prints it without rounding.                                          *)

DegreeSign == "^"               \* stands for the character U+00B0

Abs(x) == IF x < 0 THEN -x ELSE x

(* f"{x:.4f}" *)
Fmt4(x) ==
    LET m == Abs(x)
        f == m % 10000
    IN (IF x < 0 THEN <<"-">> ELSE <<>>)
         \o StrNat(m \div 10000) \o <<".">>
         \o <<Digit(f \div 1000), Digit((f \div 100) % 10), Digit((f \div 10) % 10),
              Digit(f % 10)>>

(* Line 347 *)
coords_by_latitude(lat, lon) ==
    IF lat >= 0
    THEN Fmt4(lat) \o <<DegreeSign, " ", "N", " ", "/", " ">>
            \o Fmt4(lon) \o <<DegreeSign, " ", "E">>
    ELSE Fmt4(Abs(lat)) \o <<DegreeSign, " ", "S", " ", "/", " ">>
            \o Fmt4(lon) \o <<DegreeSign, " ", "E">>

(* Lines 347-349 *)
coords_line(lat, lon) ==
    IF lon < 0 THEN StrReplace(coords_by_latitude(lat, lon), "E", "W")
    ELSE coords_by_latitude(lat, lon)

-----------------------------------------------------------------------------
(* The command line: the __main__ block *)

Given(v) == [given |-> TRUE, v |-> v]
NotGivenStr == [given |-> FALSE, v |-> <<>>]
NotGivenInt == [given |-> FALSE, v |-> 0]

(* The command lines tried: each option given or not; a city can be given  *)
(* as the empty string                                                      *)
Argvs ==
    [city : {NotGivenStr, Given(<<>>), Given(<<"a">>)},
     country : {NotGivenStr, Given(<<"c">>)},
     theme : {NotGivenStr, Given(FEATURE_BASED), Given(NOIR)},
     distance : {NotGivenInt, Given(1)},
     list_themes : BOOLEAN,
     gui : BOOLEAN]

(* Lines 664-671: parse_args with the defaults of add_argument; city and   *)
(* country default to None, for which 'not args.city' holds as it does for *)
(* the empty string                                                         *)
parse_args(a) ==
    [city |-> a.city.v,
     country |-> a.country.v,
     theme |-> IF a.theme.given THEN a.theme.v ELSE FEATURE_BASED,
     distance |-> IF a.distance.given THEN a.distance.v ELSE DefaultDistance,
     list_themes |-> a.list_themes,
     gui |-> a.gui]

(* Line 679: len(sys.argv) == 1 *)
NoArguments(a) ==
    /\ ~a.city.given /\ ~a.country.given /\ ~a.theme.given /\ ~a.distance.given
    /\ ~a.list_themes /\ ~a.gui

(* Lines 674-699: what the block decides before it touches the pipeline *)
Dispatch(a, available) ==
    LET args == parse_args(a)
    IN IF args.gui THEN [to |-> "gui", exit |-> 0]
       ELSE IF NoArguments(a) THEN [to |-> "usage", exit |-> 0]
       ELSE IF args.list_themes THEN [to |-> "list_themes", exit |-> 0]
       ELSE IF args.city = <<>> \/ args.country = <<>>
            THEN [to |-> "missing_arguments", exit |-> 1]
       ELSE IF args.theme \notin available
            THEN [to |-> "unknown_theme", exit |-> 1]
       ELSE [to |-> "pipeline", exit |-> 0]

NoExit == -1

(* Lines 671-706. load_theme (line 706) is called outside the try: when  *)
(* it raises, the interpreter prints the traceback and exits with 1.      *)
main_dispatch ==
    /\ mainPc = "start"
    /\ LET d == Dispatch(argv, get_available_themes)
           args == parse_args(argv)
       IN IF d.to = "pipeline" /\ load_theme_raises(args.theme)
          THEN /\ mainPc' = "exited"
               /\ exitCode' = 1
               /\ printed' = printed \cup {"banner", "traceback"}
               /\ UNCHANGED <<THEME, heap, pl>>
          ELSE IF d.to = "pipeline"
          THEN /\ mainPc' = "running"
               /\ printed' = printed \cup {"banner"}
               /\ THEME' = NewObj
               /\ heap' = [heap EXCEPT ![NewObj] = load_theme(args.theme)]
               /\ pl' = [pl EXCEPT ![1] =
                           PlStart(args.city, args.country, args.distance, args.theme,
                                   load_theme(args.theme))]
               /\ UNCHANGED exitCode
          ELSE /\ mainPc' = "exited"
               /\ exitCode' = d.exit
               /\ printed' = printed \cup {d.to}
               /\ UNCHANGED <<THEME, heap, pl>>
    /\ UNCHANGED <<cacheVars, themesDir, posters, postersDirExists, argv, guiVars,
                   classVars>>

(* Lines 714-722: after the try the script ends (status 0); the except     *)
(* clause prints the error and the traceback and calls os.sys.exit(1)      *)
ExitStatusAfter_always_zero(ended) == 0

ExitStatusAfter(ended) == IF ended = "done" THEN 0 ELSE 1

main_finish ==
    /\ mainPc = "running"
    /\ PlEnded(1)
    /\ mainPc' = "exited"
    /\ exitCode' = ExitStatusAfter(pl[1].pc)
    /\ printed' = printed \cup {IF pl[1].pc = "done" THEN "complete" ELSE "error"}
    /\ UNCHANGED <<cacheVars, themeVars, plVars, argv, guiVars, classVars>>

-----------------------------------------------------------------------------
(* The interactive editor: MapPosterApp *)

MaxEdits == 1       \* color picks and theme selections in one behaviour

Dialog(kind, t) == [kind |-> kind, task |-> t]
NoDialog == Dialog("none", 0)
Callback(fn, t) == [fn |-> fn, task |-> t]

(* What the user has typed into the entries when the button is pressed *)
EntryCities == { <<>>, <<"a">> }
EntryCountries == { <<"c">> }
EntryDists == { [valid |-> TRUE, v |-> 1], [valid |-> FALSE, v |-> 0] }

IdleTasks == { t \in Tasks : pl[t].pc = "idle" }
NextTask == CHOOSE t \in IdleTasks : \A u \in IdleTasks : t <= u

(* Line 621: the state generate_map puts the button in before it starts    *)
(* the thread                                                               *)
ButtonWhileGenerating_left_enabled == "normal"

ButtonWhileGenerating == "disabled"

(* Lines 612-623. The command of a disabled button is not invoked.         *)
generate_map ==
    /\ gen_btn = "normal"
    /\ IdleTasks # {}
    /\ \E city \in EntryCities, country \in EntryCountries, dist \in EntryDists :
         IF ~dist.valid
         THEN /\ dialogs' = (Dialog("invalid_distance", 0))
              /\ UNCHANGED <<gen_btn, status_label, threads, pl, posters>>
         ELSE IF city = <<>> \/ country = <<>>
         THEN /\ dialogs' = (Dialog("city_and_country_required", 0))
              /\ UNCHANGED <<gen_btn, status_label, threads, pl, posters>>
         ELSE /\ gen_btn' = ButtonWhileGenerating
              /\ status_label' = "Generating"
              /\ threads' = threads \cup {NextTask}
              /\ pl' = [pl EXCEPT ![NextTask] =
                          [PlIdle EXCEPT !.pc = "thread_start", !.city = city,
                                         !.country = country, !.dist = dist.v]]
              /\ posters' = [posters EXCEPT ![NextTask] = "none"]
              /\ UNCHANGED dialogs
    /\ UNCHANGED <<cacheVars, themeVars, postersDirExists, cliVars,
                   current_theme_data, theme_var, theme_combo, save_call, preview_label,
                   tkQueue, nEdits, classVars>>

(* Lines 627-628: the thread binds the global to the editor's dict object  *)
run_generation_begin(t) ==
    /\ t \in threads
    /\ pl[t].pc = "thread_start"
    /\ THEME' = current_theme_data
    /\ pl' = [pl EXCEPT ![t] =
                [@ EXCEPT !.pc = "coords", !.theme_name = theme_var,
                          !.started_with = heap[current_theme_data]]]
    /\ UNCHANGED <<cacheVars, themesDir, heap, posters, postersDirExists, cliVars,
                   guiVars, classVars>>

(* Lines 632-634: the thread schedules a lambda on the interface thread    *)
(* and ends                                                                 *)
run_generation_end(t) ==
    /\ t \in threads
    /\ PlEnded(t)
    /\ tkQueue' = Append(tkQueue,
                         Callback(IF pl[t].pc = "done" THEN "on_success" ELSE "on_error", t))
    /\ threads' = threads \ {t}
    /\ UNCHANGED <<cacheVars, themeVars, plVars, cliVars, current_theme_data, theme_var,
                   theme_combo, save_call, gen_btn, status_label, preview_label, dialogs,
                   nEdits, classVars>>

(* Once its callback has run nothing refers to the finished thread and its *)
(* frames any more                                                          *)
ThreadGone(t) ==
    /\ pl' = [pl EXCEPT ![t] = PlIdle]
    /\ gmd' = [gmd EXCEPT ![t] = GmdIdle]

(* Lines 636-639, run by the main loop. show_image swallows its errors.    *)
on_success ==
    /\ tkQueue # <<>>
    /\ Head(tkQueue).fn = "on_success"
    /\ tkQueue' = Tail(tkQueue)
    /\ status_label' = "Saved"
    /\ \E shown \in BOOLEAN :
         preview_label' = IF shown THEN Head(tkQueue).task ELSE preview_label
    /\ gen_btn' = "normal"
    /\ ThreadGone(Head(tkQueue).task)
    /\ UNCHANGED <<cache, fetched_for, cacheDirExists, nCalls, themeVars, posters,
                   postersDirExists,
                   cliVars, current_theme_data, theme_var, theme_combo, save_call,
                   dialogs, threads, nEdits, classVars>>

(* Line 634: lambda: self.on_error(str(e)). The name e is unbound when the *)
(* except clause ends, so the lambda, run later by the main loop, finds e  *)
(* bound only if it runs before the thread has left the clause; otherwise  *)
(* it raises NameError and on_error (lines 641-644) is not called.         *)
LambdaFindsException == { TRUE, FALSE }

on_error ==
    /\ tkQueue # <<>>
    /\ Head(tkQueue).fn = "on_error"
    /\ tkQueue' = Tail(tkQueue)
    /\ \E bound \in LambdaFindsException :
         IF bound
         THEN /\ status_label' = "Error"
              /\ dialogs' = (Dialog("generation_error", Head(tkQueue).task))
              /\ gen_btn' = "normal"
         ELSE UNCHANGED <<status_label, dialogs, gen_btn>>
    /\ ThreadGone(Head(tkQueue).task)
    /\ UNCHANGED <<cache, fetched_for, cacheDirExists, nCalls, themeVars, posters,
                   postersDirExists,
                   cliVars, current_theme_data, theme_var, theme_combo, save_call,
                   preview_label, threads, nEdits, classVars>>

(* Lines 530-533: the keys that have a color button; the user presses the  *)
(* buttons of EditedKeys                                                    *)
EditedKeys == { "bg", "text" }
ColorKeys == { k \in EditedKeys : heap[current_theme_data][k] # Missing }

(* Lines 542-549: the chosen color is stored into the dict object itself   *)
pick_color ==
    /\ nEdits < MaxEdits
    /\ \E key \in ColorKeys, color \in Colors :
         /\ heap' = [heap EXCEPT ![current_theme_data][key] = color]
         /\ THEME' = current_theme_data
    /\ nEdits' = nEdits + 1
    /\ UNCHANGED <<cacheVars, themesDir, plVars, cliVars, current_theme_data, theme_var,
                   theme_combo, save_call, gen_btn, status_label, preview_label, dialogs,
                   tkQueue, threads, classVars>>

(* Lines 551-555: the combobox has set theme_var to the value selected; a  *)
(* new dict is loaded and both references move to it. When load_theme      *)
(* raises, the handler ends there and the main loop goes on.               *)
on_theme_change ==
    /\ nEdits < MaxEdits
    /\ \E name \in theme_combo :
         /\ theme_var' = name
         /\ IF load_theme_raises(name)
            THEN UNCHANGED <<current_theme_data, THEME, heap>>
            ELSE /\ current_theme_data' = NewObj
                 /\ THEME' = NewObj
                 /\ heap' = [o \in ObjIds |->
                               IF o = NewObj THEN load_theme(name) ELSE FreeDict]
    /\ nEdits' = nEdits + 1
    /\ UNCHANGED <<cacheVars, themesDir, plVars, cliVars, theme_combo, save_call, gen_btn,
                   status_label, preview_label, dialogs, tkQueue, threads, classVars>>

(* What the user types into the "Save Theme" dialog: cancel (None), or a   *)
(* name                                                                     *)
EnteredNames ==
    { NotGivenStr, Given(<<>>), Given(<<"!">>), Given(<<"N", "o", "i", "r">>),
      Given(<<"a", " ", "b", "!">>), Given(<<"a", "_", "b">>) }

MaxSaves == 2       \* save_theme calls in one behaviour

NoSave ==
    [n |-> 0, new_name |-> NotGivenStr, slug |-> <<>>, existed |-> FALSE,
     answer |-> FALSE, wrote |-> "none"]

(* Lines 566-567: the filename slug *)
SlugChar(c) == IsAlnum(c) \/ c = "_"

theme_slug(new_name) == SelectSeq(StrReplace(StrLower(new_name), " ", "_"), SlugChar)

(* Lines 569-578: the slug must not be empty, and the answer to "Overwrite?" *)
(* must be yes when the file exists                                          *)
SaveProceeds_ignores_answer(slug, exists, answer) == slug # <<>>

SaveProceeds(slug, exists, answer) == slug # <<>> /\ (exists => answer)

(* Lines 582-583: open(filepath, 'w') truncates, json.dump fills *)
ThemeFileAfterWrite(old, w, dict) ==
    CASE w = "ok" -> ThemeFile(dict)
      [] w = "dump_failed" -> TruncatedFile
      [] OTHER -> old

(* Lines 557-588 *)
save_theme ==
    /\ save_call.n < MaxSaves
    /\ \E new_name \in EnteredNames, answer \in BOOLEAN, w \in WriteOutcomes :
         LET entered == new_name.given /\ new_name.v # <<>>
             slug == theme_slug(new_name.v)
             exists == slug \in ThemeNames /\ themesDir[slug].exists
             proceeds == entered /\ SaveProceeds(slug, exists, answer)
             named == [heap[current_theme_data] EXCEPT !["name"] = new_name.v]
             written == [themesDir EXCEPT ![slug] = ThemeFileAfterWrite(@, w, named)]
         IN /\ save_call' =
                  [n |-> save_call.n + 1, new_name |-> new_name, slug |-> slug,
                   existed |-> exists,
                   answer |-> entered /\ slug # <<>> /\ exists /\ answer,
                   wrote |-> IF proceeds THEN w ELSE "none"]
            /\ IF ~entered
               THEN UNCHANGED <<themesDir, heap, theme_combo, theme_var, dialogs>>
               ELSE IF slug = <<>>
               THEN /\ dialogs' = Dialog("invalid_theme_name", 0)
                    /\ UNCHANGED <<themesDir, heap, theme_combo, theme_var>>
               ELSE IF ~proceeds
               THEN UNCHANGED <<themesDir, heap, theme_combo, theme_var, dialogs>>
               ELSE /\ heap' = [heap EXCEPT ![current_theme_data] = named]
                    /\ themesDir' = written
                    /\ IF w = "ok"
                       THEN /\ dialogs' = Dialog("theme_saved", 0)
                            /\ theme_combo' = { n \in ThemeNames : written[n].exists }
                            /\ theme_var' = slug
                       ELSE /\ dialogs' = Dialog("could_not_save", 0)
                            /\ UNCHANGED <<theme_combo, theme_var>>
    /\ UNCHANGED <<cacheVars, THEME, plVars, cliVars, current_theme_data, gen_btn,
                   status_label, preview_label, tkQueue, threads, nEdits, classVars>>

-----------------------------------------------------------------------------
(* Initial values *)

InitCacheVars ==
    /\ cache = [p \in CachePaths |-> Absent]
    /\ fetched_for = [p \in CachePaths |-> NoRequest]
    /\ cacheDirExists = FALSE
    /\ gmd = [t \in Tasks |-> GmdIdle]
    /\ nCalls = 0

InitPlVars ==
    /\ pl = [t \in Tasks |-> PlIdle]
    /\ posters = [t \in Tasks |-> "none"]
    /\ postersDirExists = FALSE

(* No interpreter state before __main__ runs: THEME is None (line 105) *)
InitNoTheme ==
    /\ heap = [o \in ObjIds |-> FreeDict]
    /\ THEME = NoRef

InitNoCli ==
    /\ argv = [city |-> NotGivenStr, country |-> NotGivenStr, theme |-> NotGivenStr,
               distance |-> NotGivenInt, list_themes |-> FALSE, gui |-> FALSE]
    /\ mainPc = "none"
    /\ exitCode = NoExit
    /\ printed = {}

InitNoGui ==
    /\ current_theme_data = NoRef
    /\ theme_var = <<>>
    /\ theme_combo = {}
    /\ save_call = NoSave
    /\ gen_btn = "none"
    /\ status_label = "none"
    /\ preview_label = 0
    /\ dialogs = NoDialog
    /\ tkQueue = <<>>
    /\ threads = {}
    /\ nEdits = 0

InitNoCoords ==
    /\ point = [lat |-> 0, lon |-> 0]
    /\ coords = <<>>

InitNoClass ==
    /\ edge = TagMissing
    /\ edge_color = [ok |-> FALSE, value |-> "none"]
    /\ edge_width = 0
    /\ InitNoCoords

-----------------------------------------------------------------------------
(* SpecCache: successive get_map_data calls of one task against one cache   *)

CallGetMapData ==
    /\ nCalls < MaxCalls
    /\ gmd[1].pc \in {"idle", "returned", "raised"}
    /\ \E c \in Cities, k \in Countries, d \in Dists :
         gmd' = [gmd EXCEPT ![1] = GmdStart(c, k, d)]
    /\ nCalls' = nCalls + 1
    /\ UNCHANGED <<cache, fetched_for, cacheDirExists, notCache>>

InitCache ==
    /\ InitCacheVars /\ InitPlVars /\ InitNoTheme /\ InitNoCli /\ InitNoGui /\ InitNoClass
    /\ themesDir = [n \in ThemeNames |-> NoFile]

NextCache ==
    \/ CallGetMapData
    \/ get_map_data_check(1)
    \/ get_map_data_network(1)
    \/ get_map_data_water(1)
    \/ get_map_data_parks(1)
    \/ get_map_data_save(1)

SpecCache == InitCache /\ [][NextCache]_vars

-----------------------------------------------------------------------------
(* SpecCli: one run of the command line *)

InitCli ==
    /\ InitCacheVars /\ InitPlVars /\ InitNoTheme /\ InitNoGui /\ InitNoClass
    /\ themesDir \in ThemesDirs
    /\ argv \in Argvs
    /\ mainPc = "start"
    /\ exitCode = NoExit
    /\ printed = {}

NextCli ==
    \/ main_dispatch
    \/ get_coordinates(1)
    \/ generate_output_filename(1)
    \/ create_poster_call_get_map_data(1)
    \/ get_map_data_check(1)
    \/ get_map_data_network(1)
    \/ get_map_data_water(1)
    \/ get_map_data_parks(1)
    \/ get_map_data_save(1)
    \/ create_poster_got_map_data(1)
    \/ create_poster_setup(1)
    \/ create_poster_base(1)
    \/ create_poster_roads(1)
    \/ create_poster_gradients(1)
    \/ create_poster_typography(1)
    \/ create_poster_export(1)
    \/ main_finish

SpecCli == InitCli /\ [][NextCli]_vars

-----------------------------------------------------------------------------
(* SpecCliThemes: one run of the command line, theme files of any content  *)

InitCliThemes ==
    /\ InitCacheVars /\ InitPlVars /\ InitNoTheme /\ InitNoGui /\ InitNoClass
    /\ themesDir \in ThemesDirsAnyFile
    /\ argv \in Argvs
    /\ mainPc = "start"
    /\ exitCode = NoExit
    /\ printed = {}

SpecCliThemes == InitCliThemes /\ [][NextCli]_vars

-----------------------------------------------------------------------------
(* SpecGui: the interactive editor, its worker threads and the main loop   *)

(* Lines 455-469: MapPosterApp.__init__ *)
InitGui ==
    /\ InitCacheVars /\ InitPlVars /\ InitNoCli /\ InitNoClass
    /\ themesDir \in { d \in ThemesDirs : d[FEATURE_BASED].exists }
    /\ current_theme_data = 1
    /\ THEME = 1
    /\ heap = [o \in ObjIds |-> IF o = 1 THEN load_theme(FEATURE_BASED) ELSE FreeDict]
    /\ theme_var = FEATURE_BASED
    /\ theme_combo = get_available_themes
    /\ save_call = NoSave
    /\ gen_btn = "normal"
    /\ status_label = "Ready"
    /\ preview_label = 0
    /\ dialogs = NoDialog
    /\ tkQueue = <<>>
    /\ threads = {}
    /\ nEdits = 0

WorkerStep(t) ==
    \/ run_generation_begin(t)
    \/ (t \in threads /\ pipeline_step(t))
    \/ run_generation_end(t)

NextGui ==
    \/ generate_map
    \/ pick_color
    \/ on_theme_change
    \/ on_success
    \/ on_error
    \/ \E t \in Tasks : WorkerStep(t)

SpecGui == InitGui /\ [][NextGui]_vars

-----------------------------------------------------------------------------
(* SpecSave: the theme editor: color picks, theme selections, saves        *)

InitSave ==
    /\ InitCacheVars /\ InitPlVars /\ InitNoCli /\ InitNoClass
    /\ themesDir \in ThemesDirs
    /\ current_theme_data = 1
    /\ THEME = 1
    /\ heap = [o \in ObjIds |-> IF o = 1 THEN load_theme(FEATURE_BASED) ELSE FreeDict]
    /\ theme_var = FEATURE_BASED
    /\ theme_combo = get_available_themes
    /\ save_call = NoSave
    /\ gen_btn = "normal"
    /\ status_label = "Ready"
    /\ preview_label = 0
    /\ dialogs = NoDialog
    /\ tkQueue = <<>>
    /\ threads = {}
    /\ nEdits = 0

NextSave ==
    \/ save_theme
    \/ pick_color
    \/ on_theme_change

SpecSave == InitSave /\ [][NextSave]_vars

-----------------------------------------------------------------------------
(* SpecClassify: the two classifications applied to one edge *)

MaxTagLen == 2      \* longest 'highway' list tried

HighwayValues ==
    {"motorway", "motorway_link", "trunk", "trunk_link", "primary", "primary_link",
     "secondary", "secondary_link", "tertiary", "tertiary_link", "residential",
     "living_street", "unclassified", "footway", "service", ""}

ListItems == {"motorway_link", "residential", "footway", "trunk"}

RECURSIVE ListsUpTo(_)
ListsUpTo(n) ==
    IF n = 0 THEN { <<>> }
    ELSE ListsUpTo(n - 1)
           \cup { Append(l, x) : l \in { m \in ListsUpTo(n - 1) : Len(m) = n - 1 },
                                 x \in ListItems }

EdgeDatas ==
    { TagStr(h) : h \in HighwayValues } \cup { TagList(l) : l \in ListsUpTo(MaxTagLen) }
        \cup { TagMissing }

(* A theme in which every role has a color of its own *)
RoleTheme == [r \in Roles |-> r]

NotClassified == [ok |-> FALSE, value |-> "none"]

InitClassify ==
    /\ InitCacheVars /\ InitPlVars /\ InitNoCli /\ InitNoGui
    /\ themesDir = [n \in ThemeNames |-> NoFile]
    /\ heap = [o \in ObjIds |-> IF o = 1 THEN RoleTheme ELSE FreeDict]
    /\ THEME = 1
    /\ edge \in EdgeDatas
    /\ edge_color = NotClassified
    /\ edge_width = 0
    /\ InitNoCoords

(* One iteration of the loop of get_edge_colors_by_type *)
classify_color ==
    /\ edge_color = NotClassified
    /\ edge_color' = EdgeColor(edge)
    /\ UNCHANGED <<cacheVars, themeVars, plVars, cliVars, guiVars, edge, edge_width,
                   coordVars>>

(* One iteration of the loop of get_edge_widths_by_type *)
classify_width ==
    /\ edge_width = 0
    /\ edge_width' = EdgeWidth(edge).value
    /\ UNCHANGED <<cacheVars, themeVars, plVars, cliVars, guiVars, edge, edge_color,
                   coordVars>>

NextClassify == classify_color \/ classify_width

SpecClassify == InitClassify /\ [][NextClassify]_vars

-----------------------------------------------------------------------------
(* Properties of the cache (checked under SpecCache) *)

OpsOf(log) == [i \in DOMAIN log |-> log[i].op]

FetchSequence == <<"network", "water", "parks">>

StoredTriple(p) == Unpickle(cache[p])

(* C1: cache miss then hit. A call that found no entry for its key and     *)
(* returned has made exactly the fetches network, water, parks, once each  *)
(* and in that order, and the triple it returns is the one its write put   *)
(* in the cache file; a call that found an intact entry returns the stored *)
(* triple and has made no fetch at all.                                    *)
C1_MissThenHit ==
    \A t \in Tasks :
        /\ (gmd[t].found = "absent" /\ gmd[t].pc = "returned") =>
              /\ OpsOf(gmd[t].log) = FetchSequence
              /\ gmd[t].wrote # "none"
              /\ (gmd[t].wrote = "ok" =>
                     /\ StoredTriple(GmdPath(t)).ok
                     /\ StoredTriple(GmdPath(t)).data = gmd[t].data)
        /\ (gmd[t].found = "data" /\ gmd[t].pc # "check") =>
              /\ gmd[t].pc = "returned"
              /\ gmd[t].log = <<>>
              /\ gmd[t].wrote = "none"
              /\ gmd[t].data = StoredTriple(GmdPath(t)).data

C1_Witness ==
    /\ nCalls = 2
    /\ gmd[1].route = "hit"
    /\ gmd[1].pc = "returned"
    /\ gmd[1].data[1] \in Graphs

(* C2: a cache file that cannot be deserialized is never fatal. A call     *)
(* that found a corrupt entry raises no deserialization error; it goes on  *)
(* as a miss does: it runs the fetch sequence and returns the triple it    *)
(* has just fetched, and the only error it can raise is the street-network *)
(* fetch error.                                                            *)
C2_CorruptionNotFatal ==
    \A t \in Tasks :
        gmd[t].found = "corrupt" =>
            /\ gmd[t].exc \in {"none", "FetchError"}
            /\ gmd[t].pc \in {"net", "water", "parks", "save", "returned", "raised"}
            /\ gmd[t].pc = "returned" =>
                  /\ OpsOf(gmd[t].log) = FetchSequence
                  /\ gmd[t].data = Triple(gmd[t].G, gmd[t].water, gmd[t].parks)
                  /\ gmd[t].data[1] = gmd[t].log[1].r
            /\ gmd[t].pc = "raised" => gmd[t].log[Len(gmd[t].log)].r = Fail

C2_Witness ==
    /\ gmd[1].found = "corrupt"
    /\ gmd[1].pc = "returned"
    /\ gmd[1].data[1] \in Graphs

(* C3: the three fetches are guarded independently. A failed water or      *)
(* parks fetch gives None for that layer alone and the call still returns  *)
(* the street graph and the other layer as fetched; a failed street        *)
(* network fetch raises out of the call and no water or parks fetch        *)
(* follows it.                                                             *)
LayerAsFetched(value, r) == IF r = Fail THEN value = None ELSE value = r

C3_IndependentGuards ==
    \A t \in Tasks :
        LET log == gmd[t].log
        IN /\ (Len(log) >= 1 /\ log[1].r = Fail) =>
                 /\ gmd[t].pc = "raised"
                 /\ gmd[t].exc = "FetchError"
                 /\ Len(log) = 1
           /\ (gmd[t].pc = "returned" /\ gmd[t].route # "hit") =>
                 /\ OpsOf(log) = FetchSequence
                 /\ gmd[t].data[1] = log[1].r
                 /\ gmd[t].data[1] \in Graphs
                 /\ LayerAsFetched(gmd[t].data[2], log[2].r)
                 /\ LayerAsFetched(gmd[t].data[3], log[3].r)
           /\ gmd[t].pc = "raised" => (Len(log) = 1 /\ log[1].r = Fail)

C3_Witness ==
    /\ gmd[1].pc = "returned"
    /\ Len(gmd[1].log) = 3
    /\ gmd[1].log[2].r = Fail
    /\ gmd[1].log[3].r # Fail
    /\ gmd[1].data = Triple(gmd[1].log[1].r, None, gmd[1].log[3].r)

(* C4 as stated: once a file has been written for a key, no step of any    *)
(* later get_map_data call changes, rewrites or removes its content, also  *)
(* when the call finds the entry unreadable.                               *)
C4_ImmutableOnceWritten ==
    [][\A p \in CachePaths : cache[p].kind # "absent" => cache'[p] = cache[p]]_vars

(* C4 as amended: an entry that deserializes is never changed, rewritten   *)
(* or removed by get_map_data; an entry that exists but does not           *)
(* deserialize is never removed, and the only change made to it is the     *)
(* write of the triple that the call which found it unreadable fetched.    *)
C4_ReadableEntryImmutable ==
    [][\A p \in CachePaths :
          /\ cache[p].kind = "data" => cache'[p] = cache[p]
          /\ cache[p].kind = "corrupt" =>
                \/ cache'[p] = cache[p]
                \/ \E t \in Tasks :
                      /\ GmdPath(t) = p
                      /\ gmd[t].found = "corrupt"
                      /\ gmd'[t].wrote = "ok"
                      /\ cache'[p] = Pickled(gmd[t].G, gmd[t].water, gmd[t].parks)]_vars

C4_Witness ==
    /\ nCalls = 2
    /\ gmd[1].found = "corrupt"
    /\ gmd[1].wrote = "ok"
    /\ cache[GmdPath(1)].kind = "data"

-----------------------------------------------------------------------------
(* Properties of the interactive editor (checked under SpecGui) *)

InFlight == { t \in Tasks : pl[t].pc # "idle" }

(* C5: at most one generation is in flight. No reachable state has two     *)
(* run_generation threads, nor two pipeline executions; and from the start *)
(* of a generation until its on_success or on_error callback has been run  *)
(* the generate button is disabled.                                        *)
C5_AtMostOneGeneration ==
    /\ Cardinality(threads) <= 1
    /\ Cardinality(InFlight) <= 1
    /\ (threads # {} \/ tkQueue # <<>>) => gen_btn = "disabled"

C5_Witness ==
    /\ status_label = "Generating"
    /\ preview_label # 0
    /\ \E t \in threads : pl[t].pc = "roads"
    /\ gen_btn = "disabled"

(* C6: the theme of a generation is captured when the generation starts:   *)
(* every color the generation reads from THEME is the color that role had  *)
(* in the theme at the start of run_generation, whatever pick_color and    *)
(* on_theme_change do meanwhile.                                           *)
C6_ThemeCapturedAtStart ==
    \A t \in Tasks : \A rd \in pl[t].reads : rd.color = pl[t].started_with[rd.role]

(* C7: every generation that finishes is reported and releases the button: *)
(* a thread that ends leaves its callback scheduled, and when the main loop *)
(* has run the callback the button is enabled again, the status is "Saved" *)
(* after a success, and after a failure the status is "Error" and the      *)
(* error dialog of that generation has been shown.                         *)
C7_FinishedGenerationReported ==
    [][/\ \A t \in threads : t \notin threads' =>
              \E i \in DOMAIN tkQueue' : tkQueue'[i].task = t
       /\ (tkQueue # <<>> /\ tkQueue' = Tail(tkQueue)) =>
              /\ gen_btn' = "normal"
              /\ Head(tkQueue).fn = "on_success" => status_label' = "Saved"
              /\ Head(tkQueue).fn = "on_error" =>
                    /\ status_label' = "Error"
                    /\ dialogs' = Dialog("generation_error", Head(tkQueue).task)]_vars

-----------------------------------------------------------------------------
(* Properties of the pipeline and of the command line (checked under SpecCli) *)

C8_ClaimedOrder ==
    <<"coords", "acquire", "base", "roads", "gradients", "typography", "export">>

C8_Claimed(s) == \E i \in DOMAIN C8_ClaimedOrder : C8_ClaimedOrder[i] = s.stage

(* C8: the stages run in one fixed order, each at most once and only after *)
(* the stages before it succeeded; a stage that fails ends the run; the    *)
(* entry point reports the failure; and a run that failed before the       *)
(* export leaves no poster file.                                           *)
C8_FixedOrderNoPartialOutput ==
    \A t \in Tasks :
        LET st == pl[t].stages
            claimed == SelectSeq(st, C8_Claimed)
        IN /\ \A i \in DOMAIN claimed : claimed[i].stage = C8_ClaimedOrder[i]
           /\ Len(claimed) <= Len(C8_ClaimedOrder)
           /\ \A i \in DOMAIN st : i < Len(st) => st[i].ok
           /\ (st # <<>> /\ ~st[Len(st)].ok) => pl[t].pc = "failed"
           /\ pl[t].pc = "done" =>
                 (Len(claimed) = Len(C8_ClaimedOrder) /\ \A i \in DOMAIN st : st[i].ok)
           /\ (pl[t].pc = "failed" /\ st[Len(st)].stage # "export") => posters[t] = "none"
           /\ posters[t] # "none" => (st # <<>> /\ st[Len(st)].stage = "export")
           /\ (t = 1 /\ mainPc = "exited" /\ pl[t].pc = "failed") =>
                 ("error" \in printed /\ exitCode # 0)

C8_Witness ==
    /\ mainPc = "exited"
    /\ pl[1].pc = "failed"
    /\ Len(pl[1].stages) > 3
    /\ pl[1].stages[Len(pl[1].stages)].stage = "gradients"
    /\ posters[1] = "none"
    /\ "error" \in printed

C9_Missing == parse_args(argv).city = <<>> \/ parse_args(argv).country = <<>>
C9_UnknownTheme == parse_args(argv).theme \notin get_available_themes
C9_Untouched ==
    /\ pl[1] = PlIdle
    /\ gmd[1] = GmdIdle
    /\ posters[1] = "none"
    /\ \A p \in CachePaths : cache[p] = Absent
C9_RanOnce ==
    /\ PlEnded(1)
    /\ pl[1].stages # <<>>
    /\ \A i, j \in DOMAIN pl[1].stages :
          pl[1].stages[i].stage = pl[1].stages[j].stage => i = j

-----------------------------------------------------------------------------
(* Properties of the road classifier (checked under SpecClassify) *)

(* The highway value the claim says is consulted *)
C10_Consulted(data) ==
    IF data.kind = "str" THEN data.items[1]
    ELSE IF data.kind = "list" /\ Len(data.items) > 0 THEN data.items[1]
    ELSE "unclassified"

(* The family table of the claim: color role and width tier (in tenths) *)
C10_Family(h) ==
    CASE h \in {"motorway", "motorway_link"} -> [role |-> "road_motorway", width |-> 12]
      [] h \in {"trunk", "trunk_link", "primary", "primary_link"} ->
            [role |-> "road_primary", width |-> 10]
      [] h \in {"secondary", "secondary_link"} -> [role |-> "road_secondary", width |-> 8]
      [] h \in {"tertiary", "tertiary_link"} -> [role |-> "road_tertiary", width |-> 6]
      [] h \in {"residential", "living_street", "unclassified"} ->
            [role |-> "road_residential", width |-> 4]
      [] OTHER -> [role |-> "road_default", width |-> 4]

(* C10: classification is total and never raises. For a string, a list,    *)
(* an empty list and a missing tag alike, the color classification gives   *)
(* the color of the role of the tag's family and the width classification  *)
(* the width of the same family; any other tag gets the default role and   *)
(* the default width.                                                      *)
C10_ClassificationTotal ==
    LET f == C10_Family(C10_Consulted(edge))
    IN /\ edge_color # NotClassified =>
             (edge_color.ok /\ edge_color.value = RoleTheme[f.role])
       /\ edge_width # 0 => edge_width = f.width

C10_Witness ==
    /\ edge = TagList(<<"trunk", "residential">>)
    /\ edge_color = [ok |-> TRUE, value |-> "road_primary"]
    /\ edge_width = 10

-----------------------------------------------------------------------------
(* SpecCoords: the coordinate line formatted for one point *)

CoordMagnitudes == { 0, 1, 60, 9999, 10000, 407128, 740060, 1799999 }
CoordsTried == { s * m : s \in {-1, 1}, m \in CoordMagnitudes }

InitCoords ==
    /\ InitCacheVars /\ InitPlVars /\ InitNoTheme /\ InitNoCli /\ InitNoGui
    /\ themesDir = [n \in ThemeNames |-> NoFile]
    /\ edge = TagMissing
    /\ edge_color = NotClassified
    /\ edge_width = 0
    /\ point \in [lat : CoordsTried, lon : CoordsTried]
    /\ coords = <<>>

(* Lines 346-349 *)
format_coords ==
    /\ coords = <<>>
    /\ coords' = coords_line(point.lat, point.lon)
    /\ UNCHANGED <<cacheVars, themeVars, plVars, cliVars, guiVars, edge, edge_color,
                   edge_width, point>>

NextCoords == format_coords

SpecCoords == InitCoords /\ [][NextCoords]_vars

-----------------------------------------------------------------------------
(* Properties of theme use (checked under SpecCliThemes) *)

RenderStages == {"setup", "base", "roads", "gradients", "typography", "export"}

(* C11: whenever a theme is used for rendering, every required role        *)
(* resolves to a color (a theme that lacks a role having been replaced by  *)
(* the built-in default set), so no render stage looks up a role that is   *)
(* missing and no render fails for that reason.                            *)
C11_ThemeComplete ==
    \A t \in Tasks :
        /\ pl[t].pc \in RenderStages => \A r \in Roles : ThemeGet(r) # Missing
        /\ \A x \in pl[t].reads : x.color # Missing

C11_FailingRun ==
    /\ mainPc = "exited"
    /\ argv.theme = Given(NOIR)
    /\ themesDir[NOIR].dict["bg"] = Missing
    /\ pl[1].pc = "failed"
    /\ pl[1].stages[Len(pl[1].stages)] = Stage("setup", FALSE)
    /\ [stage |-> "setup", role |-> "bg", color |-> Missing] \in pl[1].reads
    /\ posters[1] = "none"
    /\ exitCode = 1

-----------------------------------------------------------------------------
(* Properties of the theme save (checked under SpecSave) *)

(* The identifier derived from a name, character by character: lowercased, *)
(* a space becomes an underscore, anything that is then neither            *)
(* alphanumeric nor an underscore is dropped                               *)
RECURSIVE C12_Identifier(_)
C12_Identifier(name) ==
    IF name = <<>> THEN <<>>
    ELSE LET c == IF Head(name) = " " THEN "_" ELSE LowerChar(Head(name))
         IN (IF IsAlnum(c) \/ c = "_" THEN <<c>> ELSE <<>>) \o C12_Identifier(Tail(name))

C12_SaveStep == save_call'.n = save_call.n + 1

(* C12: a save writes a theme file only when the identifier derived from   *)
(* the entered name is not empty and, the file of that identifier          *)
(* existing, the user confirmed the overwrite, and it writes that file     *)
(* only; with an empty identifier or a declined overwrite the theme files  *)
(* and the current theme in memory stay as they were.                      *)
C12_SaveOnlyWhenValidAndConfirmed ==
    [][ C12_SaveStep =>
          LET id == C12_Identifier(save_call'.new_name.v)
              existed == id \in ThemeNames /\ themesDir[id].exists
          IN /\ themesDir' # themesDir =>
                   /\ id # <<>>
                   /\ existed => save_call'.answer
                   /\ \A n \in ThemeNames \ {id} : themesDir'[n] = themesDir[n]
             /\ (id = <<>> \/ (existed /\ ~save_call'.answer)) =>
                   /\ UNCHANGED <<themesDir, current_theme_data, theme_var, theme_combo>>
                   /\ heap'[current_theme_data] = heap[current_theme_data]
      ]_vars

(* A save as "a_b" declined after a save as "a b!" had written a_b.json,   *)
(* and a save under a name of no usable character                          *)
C12_Witness ==
    /\ save_call.n = 2
    /\ save_call.new_name = Given(<<"a", "_", "b">>)
    /\ save_call.existed /\ ~save_call.answer
    /\ themesDir[A_B].parses
    /\ themesDir[A_B].dict["name"] = <<"a", " ", "b", "!">>
    /\ heap[current_theme_data]["name"] = <<"a", " ", "b", "!">>
    /\ theme_var = A_B

C12_WitnessEmpty ==
    /\ save_call.new_name = Given(<<"!">>)
    /\ save_call.slug = <<>>
    /\ dialogs = Dialog("invalid_theme_name", 0)

-----------------------------------------------------------------------------
(* Properties of the coordinate line (checked under SpecCoords) *)

(* The line the claim describes: each magnitude followed by its letter *)
C13_Claimed(lat, lon) ==
    Fmt4(Abs(lat)) \o <<DegreeSign, " ", IF lat >= 0 THEN "N" ELSE "S", " ", "/", " ">>
        \o Fmt4(Abs(lon)) \o <<DegreeSign, " ", IF lon >= 0 THEN "E" ELSE "W">>

(* C13: for every point the coordinate line shows the latitude as its      *)
(* magnitude followed by N when lat >= 0 and by S when lat < 0, and the    *)
(* longitude as its magnitude followed by E when lon >= 0 and by W when    *)
(* lon < 0.                                                                *)
C13_HemisphereBySign ==
    coords # <<>> => coords = C13_Claimed(point.lat, point.lon)

(* What holds of every point: both letters follow the signs, and there is  *)
(* no other N, S, E or W in the line                                       *)
C13_LettersBySign ==
    coords # <<>> =>
        LET letters == SelectSeq(coords, LAMBDA c : c \in {"N", "S", "E", "W"})
        IN letters = << IF point.lat >= 0 THEN "N" ELSE "S",
                        IF point.lon >= 0 THEN "E" ELSE "W" >>

C13_WestShown ==
    /\ point = [lat |-> 407128, lon |-> -740060]
    /\ coords = <<"4", "0", ".", "7", "1", "2", "8", DegreeSign, " ", "N", " ", "/", " ",
                  "-", "7", "4", ".", "0", "0", "6", "0", DegreeSign, " ", "W">>

-----------------------------------------------------------------------------
(* Properties of the cache key (checked under SpecCache) *)

(* C14: cache keys do not collide. A call answered from the cache gets the *)
(* data that was fetched for a request of the same normalized city, the    *)
(* same normalized country and the same radius.                            *)
C14_NoKeyCollision ==
    \A t \in Tasks :
        (gmd[t].route = "hit" /\ fetched_for[GmdPath(t)] # NoRequest) =>
            LET o == fetched_for[GmdPath(t)]
            IN /\ city_slug(o.city) = city_slug(gmd[t].city)
               /\ country_slug(o.country) = country_slug(gmd[t].country)
               /\ o.dist = gmd[t].dist

(* The request ("a", "b_c") answered with what was fetched for ("A b", "c") *)
C14_Collision ==
    /\ gmd[1].route = "hit"
    /\ gmd[1].city = <<"a">> /\ gmd[1].country = <<"b", "_", "c">>
    /\ fetched_for[GmdPath(1)].city = <<"A", " ", "b">>
    /\ fetched_for[GmdPath(1)].country = <<"c">>

(* C15: a layer failure is cached, a street-network failure is not. The    *)
(* entry written by a call whose water (or parks) fetch failed holds that  *)
(* layer as None; such an entry is never changed afterwards, and a later   *)
(* call that finds it returns it, absent layer included, without any       *)
(* fetch; a call whose street-network fetch failed raises and neither      *)
(* creates nor changes a cache entry.                                      *)
C15_LayerFailureCached ==
    [][ \A t \in Tasks :
          LET g == gmd[t]
              h == gmd'[t]
              p == GmdPath(t)
          IN /\ (g.pc = "save" /\ h.wrote = "ok") =>
                   /\ cache'[p].kind = "data"
                   /\ g.log[2].r = Fail => cache'[p].water = None
                   /\ g.log[3].r = Fail => cache'[p].parks = None
             /\ \A q \in CachePaths :
                   (cache[q].kind = "data"
                       /\ (cache[q].water = None \/ cache[q].parks = None)) =>
                         cache'[q] = cache[q]
             /\ (g.pc = "check" /\ cache[p].kind = "data") =>
                   /\ h.pc = "returned"
                   /\ h.log = <<>>
                   /\ h.data = Triple(cache[p].G, cache[p].water, cache[p].parks)
             /\ (Len(h.log) >= 1 /\ h.log[1].r = Fail) =>
                   /\ h.pc = "raised"
                   /\ h.wrote = "none"
                   /\ cache' = cache
      ]_vars

(* The second call for a key returned the entry of the first, whose water  *)
(* fetch had failed: no water, no fetch                                    *)
C15_Witness ==
    /\ nCalls = 2
    /\ gmd[1].pc = "returned"
    /\ gmd[1].route = "hit"
    /\ gmd[1].log = <<>>
    /\ gmd[1].data[1] \in Graphs
    /\ gmd[1].data[2] = None
    /\ gmd[1].data[3] \in Features
    /\ cache[GmdPath(1)] = Pickled(gmd[1].data[1], None, gmd[1].data[3])

====
